---- MODULE Spec2Model ----
(***************************************************************************)
(* A model of the foundation-layout editor: src/App.tsx (project state,    *)
(* history stacks, auto-detect, handleGenerate), src/components/           *)
(* CanvasEditor.tsx (label allocation, grid-line placement, column         *)
(* toggling) and the Sidebar of src/unnamed/part_001 (step navigation,     *)
(* settings form).                                                         *)
(*                                                                         *)
(* Strings are sequences of character codes, so that includes, split,      *)
(* trim, parseInt, charCodeAt and fromCharCode are computed as JavaScript  *)
(* computes them.  A JavaScript number is an exact rational [n, d] in      *)
(* lowest terms with d > 0, extended with the IEEE values that are no      *)
(* rationals: d = 0 encodes +Infinity (n = 1), -Infinity (n = -1) and NaN  *)
(* (n = 0), and [n |-> 0, d |-> -1] is the negative zero.  Rounding of     *)
(* floating point is not modelled.                                         *)
(***************************************************************************)
EXTENDS Integers, Sequences, FiniteSets, TLC

(***************************************************************************)
(* Character codes and string primitives                                   *)
(***************************************************************************)
\* '-', the separator of an intersection id.
ChDash == 45
\* 'A', 'Z', 'a', 'z': the letter ranges of getNextLabel.
ChUpperA == 65
ChUpperZ == 90
ChLowerA == 97
ChLowerZ == 122

\* String.prototype.includes: sub occurs in s as a contiguous substring.
Includes(s, sub) ==
  \E i \in 0..(Len(s) - Len(sub)) : SubSeq(s, i + 1, i + Len(sub)) = sub

\* Position of the first occurrence of character c in s, 0 when absent.
RECURSIVE IndexOfFrom(_, _, _)
IndexOfFrom(s, c, i) ==
  IF i > Len(s) THEN 0
  ELSE IF s[i] = c THEN i
  ELSE IndexOfFrom(s, c, i + 1)

\* String.prototype.split with a one-character separator.
RECURSIVE Split(_, _)
Split(s, c) ==
  LET k == IndexOfFrom(s, c, 1)
  IN IF k = 0 THEN <<s>>
     ELSE <<SubSeq(s, 1, k - 1)>> \o Split(SubSeq(s, k + 1, Len(s)), c)

\* White space and line terminators as String.prototype.trim and parseInt
\* see them: tab, LF, VT, FF, CR, space, U+00A0, U+1680, U+2000..U+200A,
\* U+2028, U+2029, U+202F, U+205F, U+3000 and U+FEFF.
IsSpace(c) ==
  \/ c \in {9, 10, 11, 12, 13, 32, 160, 5760, 8232, 8233, 8239, 8287, 12288, 65279}
  \/ (c >= 8192 /\ c <= 8202)

RECURSIVE TrimLeft(_)
TrimLeft(s) ==
  IF s # <<>> /\ IsSpace(s[1]) THEN TrimLeft(Tail(s)) ELSE s

RECURSIVE TrimRight(_)
TrimRight(s) ==
  IF s # <<>> /\ IsSpace(s[Len(s)]) THEN TrimRight(SubSeq(s, 1, Len(s) - 1)) ELSE s

Trim(s) == TrimRight(TrimLeft(s))

(***************************************************************************)
(* JavaScript numbers: exact rationals, the signed zeros and the           *)
(* non-finite values                                                       *)
(***************************************************************************)
Abs(i) == IF i < 0 THEN 0 - i ELSE i
Sign(i) == IF i < 0 THEN -1 ELSE IF i > 0 THEN 1 ELSE 0

RECURSIVE Gcd(_, _)
Gcd(a, b) == IF b = 0 THEN a ELSE Gcd(b, a % b)

NaN == [n |-> 0, d |-> 0]
Inf(sgn) == [n |-> sgn, d |-> 0]
\* +0 for sgn >= 0, -0 for sgn < 0.
Zero(sgn) == [n |-> 0, d |-> IF sgn < 0 THEN -1 ELSE 1]
\* The rational n/d (n # 0, d # 0) in lowest terms with a positive
\* denominator; +0 for n = 0.
Rat(n, d) ==
  LET g == Gcd(Abs(n), Abs(d))
  IN [n |-> Sign(d) * (n \div g), d |-> Abs(d) \div g]
Num(i) == [n |-> i, d |-> 1]

IsNaN(a) == a.d = 0 /\ a.n = 0
IsFinite(a) == a.d # 0
IsZero(a) == a.d # 0 /\ a.n = 0
\* The sign bit of a number that is not NaN: -1 or 1; -0 is negative.
SignOf(a) == IF a.n # 0 THEN Sign(a.n) ELSE IF a.d < 0 THEN -1 ELSE 1

RNeg(a) ==
  IF IsNaN(a) THEN NaN
  ELSE IF IsZero(a) THEN Zero(0 - SignOf(a))
  ELSE [n |-> 0 - a.n, d |-> a.d]

\* IEEE addition: the sum of two zeros is -0 only when both are -0, and an
\* exact sum of zero of two non-zero numbers is +0.
RAdd(a, b) ==
  IF IsNaN(a) \/ IsNaN(b) THEN NaN
  ELSE IF IsFinite(a) /\ IsFinite(b) THEN
    IF IsZero(a) /\ IsZero(b)
    THEN Zero(IF SignOf(a) < 0 /\ SignOf(b) < 0 THEN -1 ELSE 1)
    ELSE IF IsZero(a) THEN b
    ELSE IF IsZero(b) THEN a
    ELSE Rat(a.n * b.d + b.n * a.d, a.d * b.d)
  ELSE IF IsFinite(a) THEN b
  ELSE IF IsFinite(b) THEN a
  ELSE IF a.n = b.n THEN a ELSE NaN

RSub(a, b) == RAdd(a, RNeg(b))

\* IEEE multiplication: the sign of the product is the product of the signs.
RMul(a, b) ==
  IF IsNaN(a) \/ IsNaN(b) THEN NaN
  ELSE IF IsFinite(a) /\ IsFinite(b) THEN
    IF IsZero(a) \/ IsZero(b) THEN Zero(SignOf(a) * SignOf(b))
    ELSE Rat(a.n * b.n, a.d * b.d)
  ELSE IF IsZero(a) \/ IsZero(b) THEN NaN
  ELSE Inf(SignOf(a) * SignOf(b))

\* IEEE division: x / (+-0) is an infinity with the product of the signs,
\* 0 / 0 and Infinity / Infinity are NaN.
RDiv(a, b) ==
  IF IsNaN(a) \/ IsNaN(b) THEN NaN
  ELSE IF IsFinite(a) /\ IsFinite(b) THEN
    IF IsZero(b) THEN (IF IsZero(a) THEN NaN ELSE Inf(SignOf(a) * SignOf(b)))
    ELSE IF IsZero(a) THEN Zero(SignOf(a) * SignOf(b))
    ELSE Rat(a.n * b.d, a.d * b.n)
  ELSE IF IsFinite(b) THEN Inf(SignOf(a) * SignOf(b))
  ELSE IF IsFinite(a) THEN Zero(SignOf(a) * SignOf(b))
  ELSE NaN

RAbs(a) == IF IsZero(a) THEN Zero(1) ELSE [n |-> Abs(a.n), d |-> a.d]

\* a < b for finite numbers; the two zeros are equal.
RLess(a, b) == a.n * Abs(b.d) < b.n * Abs(a.d)

\* Math.max(a, b) of finite numbers of which at most one is a zero.
RMax(a, b) == IF RLess(a, b) THEN b ELSE a

\* Math.sqrt(dx*dx + dy*dy).  Every segment of findConnections is parallel to
\* an axis, so one of dx, dy is zero whenever both are finite and the root is
\* exact; a NaN operand gives NaN and an infinite one Infinity.
Hypot(dx, dy) ==
  IF IsNaN(dx) \/ IsNaN(dy) THEN NaN
  ELSE IF ~IsFinite(dx) \/ ~IsFinite(dy) THEN Inf(1)
  ELSE IF IsZero(dx) THEN RAbs(dy)
  ELSE RAbs(dx)

\* Value of character c as a digit of the given radix, -1 when it is none
\* ('0'..'9' are the codes 48..57).
DigitVal(c, radix) ==
  LET v == IF c >= 48 /\ c <= 57 THEN c - 48
           ELSE IF c >= ChLowerA /\ c <= ChLowerZ THEN c - ChLowerA + 10
           ELSE IF c >= ChUpperA /\ c <= ChUpperZ THEN c - ChUpperA + 10
           ELSE -1
  IN IF v >= 0 /\ v < radix THEN v ELSE -1

\* Longest prefix of digits of s, accumulated left to right; <<value, count>>.
RECURSIVE DigitsPrefix(_, _, _, _)
DigitsPrefix(s, radix, acc, cnt) ==
  IF s = <<>> \/ DigitVal(s[1], radix) < 0 THEN <<acc, cnt>>
  ELSE DigitsPrefix(Tail(s), radix, acc * radix + DigitVal(s[1], radix), cnt + 1)

\* parseInt(string) without a radix argument, as a number: leading white
\* space is skipped, one sign ('-' or '+', code 43) is accepted, a 0x / 0X
\* prefix (codes 120, 88) selects radix 16, parsing stops at the first
\* character that is no digit, no digit at all gives NaN, and the sign is
\* applied to the value, so that "-0" gives -0.
ParseInt(str) ==
  LET s0 == TrimLeft(str)
      neg == s0 # <<>> /\ s0[1] = ChDash
      s1 == IF s0 # <<>> /\ s0[1] \in {ChDash, 43} THEN Tail(s0) ELSE s0
      hex == Len(s1) >= 2 /\ s1[1] = 48 /\ s1[2] \in {120, 88}
      s2 == IF hex THEN SubSeq(s1, 3, Len(s1)) ELSE s1
      r == DigitsPrefix(s2, IF hex THEN 16 ELSE 10, 0, 0)
  IN IF r[2] = 0 THEN NaN
     ELSE IF neg THEN RNeg(Num(r[1])) ELSE Num(r[1])

\* Number.prototype.toString of an integer, as a string of decimal digits.
RECURSIVE NatToString(_)
NatToString(n) ==
  IF n < 10 THEN <<48 + n>>
  ELSE NatToString(n \div 10) \o <<48 + (n % 10)>>

IntToString(n) == IF n < 0 THEN <<ChDash>> \o NatToString(0 - n) ELSE NatToString(n)

\* Number.prototype.toString of a number whose value is an integer; both
\* zeros give "0".
NumberToString(a) == IntToString(a.n)

(***************************************************************************)
(* Project data (src/types.ts)                                             *)
(*   GridLine  [label, position, orientation]; the random id is left out,  *)
(*             nothing reads it; position is a number                      *)
(*   Column    [intersectionId, width, height, type]                       *)
(*   Settings  [scale, gridSpacing, wallWidth, trenchWidth, footingWidth,  *)
(*              workingSpace, blindingOffset], each a number               *)
(***************************************************************************)
GridLine(label, position, orientation) ==
  [label |-> label, position |-> position, orientation |-> orientation]

\* The id getIntersections gives the crossing of v and h: `${v.label}-${h.label}`.
IntersectionId(vLabel, hLabel) == vLabel \o <<ChDash>> \o hLabel

\* The column handleCanvasClick adds for a clicked intersection.
NewColumn(id) == [intersectionId |-> id, width |-> 20, height |-> 20, type |-> "square"]

\* The settings App starts with.
InitialSettings ==
  [scale |-> Num(100), gridSpacing |-> Num(4000), wallWidth |-> Num(225),
   trenchWidth |-> Num(600), footingWidth |-> Num(1000), workingSpace |-> Num(300),
   blindingOffset |-> Num(50)]

\* array.filter(l => l.orientation === o), order kept.
OfOrientation(lines, o) == SelectSeq(lines, LAMBDA l : l.orientation = o)

\* Insertion of e into a sequence sorted by position, after every element
\* whose position is not greater: one step of a stable ascending sort of
\* finite positions.
RECURSIVE InsertByPosition(_, _)
InsertByPosition(sorted, e) ==
  IF sorted = <<>> THEN <<e>>
  ELSE IF RLess(e.position, Head(sorted).position) THEN <<e>> \o sorted
  ELSE <<Head(sorted)>> \o InsertByPosition(Tail(sorted), e)

\* array.sort((a, b) => a.position - b.position): ascending and stable.
RECURSIVE SortByPosition(_)
SortByPosition(seq) ==
  IF seq = <<>> THEN <<>>
  ELSE InsertByPosition(SortByPosition(SubSeq(seq, 1, Len(seq) - 1)), seq[Len(seq)])

\* The lines of one orientation left in insertion order.
UnsortedLines(lines, o) == OfOrientation(lines, o)

\* vLines / hLines of handleGenerate: one orientation, sorted by position.
SortedLines(lines, o) == SortByPosition(OfOrientation(lines, o))

\* array.find: the first element of seq with the label, as a sequence of
\* length 0 (undefined) or 1.
FindByLabel(seq, label) ==
  LET hits == SelectSeq(seq, LAMBDA l : l.label = label)
  IN IF hits = <<>> THEN <<>> ELSE <<hits[1]>>

(***************************************************************************)
(* handleGenerate: the coordinate transform (src/App.tsx 135-178).         *)
(* p is the project the invocation closed over:                            *)
(* [gridLines, columns, settings].                                         *)
(***************************************************************************)
\* 300 / 25.4
PPI == Rat(3000, 254)
PAPER_W == 420
PAPER_H == 297
CANVAS_W == RMul(Num(PAPER_W), PPI)
CANVAS_H == RMul(Num(PAPER_H), PPI)

VLines(p) == SortedLines(p.gridLines, "vertical")
HLines(p) == SortedLines(p.gridLines, "horizontal")

\* The guard of line 165: at least one line on each axis.
HasBothAxes(p) == Len(VLines(p)) >= 1 /\ Len(HLines(p)) >= 1

\* mmToPx: (mm / scale) * PPI.
MmToPx(p, mm) == RMul(RDiv(mm, p.settings.scale), PPI)

\* The ratio taken over the number of lines instead of the number of gaps.
PxPerRealMMByCount(p) ==
  LET v == VLines(p)
  IN IF Len(v) > 1
     THEN RDiv(RSub(v[Len(v)].position, v[1].position),
               RMul(p.settings.gridSpacing, Num(Len(v))))
     ELSE Rat(1, 10)

\* (last - first) / (gridSpacing * (count - 1)) with two or more vertical
\* lines, else 0.1.
PxPerRealMM(p) ==
  LET v == VLines(p)
  IN IF Len(v) > 1
     THEN RDiv(RSub(v[Len(v)].position, v[1].position),
               RMul(p.settings.gridSpacing, Num(Len(v) - 1)))
     ELSE Rat(1, 10)

\* gridW, gridH (171-172): gridSpacing * (count - 1), else 1000.
GridW(p) ==
  IF Len(VLines(p)) > 1 THEN RMul(p.settings.gridSpacing, Num(Len(VLines(p)) - 1))
  ELSE Num(1000)
GridH(p) ==
  IF Len(HLines(p)) > 1 THEN RMul(p.settings.gridSpacing, Num(Len(HLines(p)) - 1))
  ELSE Num(1000)

CX(p) == RSub(RDiv(CANVAS_W, Num(2)), RDiv(MmToPx(p, GridW(p)), Num(2)))
CY(p) == RSub(RDiv(CANVAS_H, Num(2)), RDiv(MmToPx(p, GridH(p)), Num(2)))

\* Both use the ratio of the vertical lines; called only when both axes
\* have a line.
MapX(p, x) ==
  RAdd(CX(p), MmToPx(p, RDiv(RSub(x, VLines(p)[1].position), PxPerRealMM(p))))
MapY(p, y) ==
  RAdd(CY(p), MmToPx(p, RDiv(RSub(y, HLines(p)[1].position), PxPerRealMM(p))))

(***************************************************************************)
(* handleGenerate: findConnections (src/App.tsx 184-202)                   *)
(***************************************************************************)
\* The .map callback of lines 189-194 for one column on one line: the
\* orthogonal line's position as <<[position]>>, or <<>> for null.
\* parts[1] of an id without '-' is undefined and matches no label.
OrthOf(p, line, isVert, c) ==
  LET parts == Split(c.intersectionId, ChDash)
      first == parts[1] = line.label
      orth == IF isVert THEN HLines(p) ELSE VLines(p)
      found == IF first /\ Len(parts) < 2 THEN <<>>
               ELSE FindByLabel(orth, IF first THEN parts[2] ELSE parts[1])
  IN IF found = <<>> THEN <<>> ELSE <<[position |-> found[1].position]>>

RECURSIVE OrthPositions(_, _, _, _)
OrthPositions(p, line, isVert, cs) ==
  IF cs = <<>> THEN <<>>
  ELSE OrthOf(p, line, isVert, Head(cs)) \o OrthPositions(p, line, isVert, Tail(cs))

\* cols of one line: filter(includes) . map . filter(non-null) . sort by pos.
ColsOf(p, line, isVert) ==
  SortByPosition(OrthPositions(p, line, isVert,
    SelectSeq(p.columns, LAMBDA c : Includes(c.intersectionId, line.label))))

\* The segment pushed for cols[i], cols[i+1] of one line.
SegmentOf(p, line, isVert, a, b) ==
  IF isVert
  THEN [x1 |-> MapX(p, line.position), y1 |-> MapY(p, a.position),
        x2 |-> MapX(p, line.position), y2 |-> MapY(p, b.position)]
  ELSE [x1 |-> MapX(p, a.position), y1 |-> MapY(p, line.position),
        x2 |-> MapX(p, b.position), y2 |-> MapY(p, line.position)]

\* A loop that stops one pair early.
LineConnectionsShort(p, line, isVert) ==
  LET cols == ColsOf(p, line, isVert)
  IN [i \in 1..(IF Len(cols) < 2 THEN 0 ELSE Len(cols) - 2) |->
        SegmentOf(p, line, isVert, cols[i], cols[i + 1])]

\* The segments the for loop of lines 195-198 pushes for one line.
LineConnections(p, line, isVert) ==
  LET cols == ColsOf(p, line, isVert)
  IN [i \in 1..(IF Len(cols) = 0 THEN 0 ELSE Len(cols) - 1) |->
        SegmentOf(p, line, isVert, cols[i], cols[i + 1])]

RECURSIVE ConnectionsOver(_, _, _)
ConnectionsOver(p, lines, isVert) ==
  IF lines = <<>> THEN <<>>
  ELSE LineConnections(p, Head(lines), isVert) \o ConnectionsOver(p, Tail(lines), isVert)

\* findConnections(lines, isVert): what one call appends to connections.
findConnections(p, lines, isVert) == ConnectionsOver(p, lines, isVert)

\* connections after findConnections(hLines, false); findConnections(vLines, true).
Connections(p) ==
  findConnections(p, HLines(p), FALSE) \o findConnections(p, VLines(p), TRUE)

(***************************************************************************)
(* handleGenerate: the drawing layers (src/App.tsx 180-304).               *)
(* The canvas is the sequence of paint calls issued on it, in order.  A    *)
(* paint call is [layer, op, pts, ...]: pts are the points of its path or  *)
(* the origin of its rectangle, size the rectangle's <<width, height>> or  *)
(* the circle's radius.  The calls of the segment layers carry the len     *)
(* their normal was divided by.  A path point that is not finite is        *)
(* ignored by the canvas, so such a call paints nothing.                   *)
(***************************************************************************)
Pt(x, y) == <<x, y>>
Half(a) == RDiv(a, Num(2))

\* nx = -dy/len, ny = dx/len of lines 211-212 (223-224, 234-235).
SegLen(c) == Hypot(RSub(c.x2, c.x1), RSub(c.y2, c.y1))
NormalX(c) == RDiv(RNeg(RSub(c.y2, c.y1)), SegLen(c))
NormalY(c) == RDiv(RSub(c.x2, c.x1), SegLen(c))

\* The point (x + sgn * nx * w/2, y + sgn * ny * w/2).
Offset(c, x, y, w, sgn) ==
  Pt(RAdd(x, RMul(Num(sgn), Half(RMul(NormalX(c), w)))),
     RAdd(y, RMul(Num(sgn), Half(RMul(NormalY(c), w)))))

\* One stroked line parallel to segment c at signed distance w/2.
OffsetLine(layer, c, w, sgn) ==
  [layer |-> layer, op |-> "stroke", len |-> SegLen(c), width |-> w,
   pts |-> <<Offset(c, c.x1, c.y1, w, sgn), Offset(c, c.x2, c.y2, w, sgn)>>]

\* The closed band of width w around segment c.
Band(layer, op, c, w) ==
  [layer |-> layer, op |-> op, len |-> SegLen(c), width |-> w,
   pts |-> <<Offset(c, c.x1, c.y1, w, 1), Offset(c, c.x2, c.y2, w, 1),
             Offset(c, c.x2, c.y2, w, -1), Offset(c, c.x1, c.y1, w, -1)>>]

FPx(p) == MmToPx(p, p.settings.footingWidth)
WPx(p) == MmToPx(p, p.settings.wallWidth)
\* A trench as wide as the footing: the working space is left out.
TPxNoWorkingSpace(p) == MmToPx(p, p.settings.footingWidth)
TPx(p) == MmToPx(p, RAdd(p.settings.footingWidth, p.settings.workingSpace))
BPx(p) == MmToPx(p, RAdd(p.settings.footingWidth, RMul(p.settings.blindingOffset, Num(2))))

\* First forEach (210-219): per segment, two excavation lines, then two
\* blinding lines.
RECURSIVE TrenchLayer(_, _)
TrenchLayer(p, cs) ==
  IF cs = <<>> THEN <<>>
  ELSE << OffsetLine("excavation", Head(cs), TPx(p), 1),
          OffsetLine("excavation", Head(cs), TPx(p), -1),
          OffsetLine("blinding", Head(cs), BPx(p), 1),
          OffsetLine("blinding", Head(cs), BPx(p), -1) >>
       \o TrenchLayer(p, Tail(cs))

\* Second forEach (222-231): per segment, the footing band filled, then stroked.
RECURSIVE FootingLayer(_, _)
FootingLayer(p, cs) ==
  IF cs = <<>> THEN <<>>
  ELSE << Band("footing", "fill", Head(cs), FPx(p)),
          Band("footing", "stroke", Head(cs), FPx(p)) >>
       \o FootingLayer(p, Tail(cs))

\* Third forEach (233-241): per segment, the wall band filled.
RECURSIVE WallLayer(_, _)
WallLayer(p, cs) ==
  IF cs = <<>> THEN <<>>
  ELSE << Band("wall", "fill", Head(cs), WPx(p)) >> \o WallLayer(p, Tail(cs))

Max(a, b) == IF a > b THEN a ELSE b

\* The three rectangles of one column (243-258), none when a label of its
\* id is the label of no grid line.  find looks in all grid lines, in
\* insertion order; l2 of an id without '-' is undefined.
ColumnOps(p, col) ==
  LET parts == Split(col.intersectionId, ChDash)
      line1 == FindByLabel(p.gridLines, parts[1])
      line2 == IF Len(parts) < 2 THEN <<>> ELSE FindByLabel(p.gridLines, parts[2])
  IN IF line1 = <<>> \/ line2 = <<>> THEN <<>>
     ELSE
       LET vert == line1[1].orientation = "vertical"
           x == MapX(p, IF vert THEN line1[1].position ELSE line2[1].position)
           y == MapY(p, IF vert THEN line2[1].position ELSE line1[1].position)
           rawW == IF col.width # 0 /\ col.width > 50 THEN Num(col.width)
                   ELSE RMax(Num(300), p.settings.wallWidth)
           rawH == IF col.height # 0 /\ col.height > 50 THEN Num(col.height)
                   ELSE RMax(Num(300), p.settings.wallWidth)
           colW == MmToPx(p, rawW)
           colH == MmToPx(p, rawH)
           padW == MmToPx(p, RMax(RAdd(RAdd(p.settings.footingWidth, p.settings.workingSpace),
                                       Num(200)), Num(1200)))
           padAt == Pt(RSub(x, Half(padW)), RSub(y, Half(padW)))
       IN << [layer |-> "column", op |-> "fillRect", id |-> col.intersectionId,
              pts |-> <<padAt>>, size |-> <<padW, padW>>],
             [layer |-> "column", op |-> "strokeRect", id |-> col.intersectionId,
              pts |-> <<padAt>>, size |-> <<padW, padW>>],
             [layer |-> "column", op |-> "fillRect", id |-> col.intersectionId,
              pts |-> <<Pt(RSub(x, Half(colW)), RSub(y, Half(colH)))>>,
              size |-> <<colW, colH>>] >>

RECURSIVE ColumnLayer(_, _)
ColumnLayer(p, cols) ==
  IF cols = <<>> THEN <<>>
  ELSE ColumnOps(p, Head(cols)) \o ColumnLayer(p, Tail(cols))

\* ext = mmToPx(2000) (261) and BUBBLE_DIA = 10 * PPI (160).
Ext(p) == MmToPx(p, Num(2000))
BubbleDia == RMul(Num(10), PPI)

\* The dashed grid lines (264-265): verticals, then horizontals.
VGridOp(p, v) ==
  [layer |-> "gridline", op |-> "stroke", label |-> v.label,
   pts |-> <<Pt(MapX(p, v.position), RSub(CY(p), Ext(p))),
             Pt(MapX(p, v.position), RAdd(RAdd(CY(p), MmToPx(p, GridH(p))), Ext(p)))>>]
HGridOp(p, h) ==
  [layer |-> "gridline", op |-> "stroke", label |-> h.label,
   pts |-> <<Pt(RSub(CX(p), Ext(p)), MapY(p, h.position)),
             Pt(RAdd(RAdd(CX(p), MmToPx(p, GridW(p))), Ext(p)), MapY(p, h.position))>>]

GridLineLayer(p) ==
  [i \in 1..Len(VLines(p)) |-> VGridOp(p, VLines(p)[i])]
  \o [i \in 1..Len(HLines(p)) |-> HGridOp(p, HLines(p)[i])]

\* One bubble (269-280): circle filled, circle stroked, label text.
BubbleOps(at, label) ==
  << [layer |-> "bubble", op |-> "fill", label |-> label, pts |-> <<at>>, size |-> Half(BubbleDia)],
     [layer |-> "bubble", op |-> "stroke", label |-> label, pts |-> <<at>>, size |-> Half(BubbleDia)],
     [layer |-> "bubble", op |-> "fillText", label |-> label, pts |-> <<at>>, text |-> label] >>

VBubbleAt(p, v) == Pt(MapX(p, v.position), RSub(RSub(CY(p), Ext(p)), Half(BubbleDia)))
HBubbleAt(p, h) == Pt(RSub(RSub(CX(p), Ext(p)), Half(BubbleDia)), MapY(p, h.position))

RECURSIVE BubblesOver(_, _, _)
BubblesOver(p, lines, isVert) ==
  IF lines = <<>> THEN <<>>
  ELSE BubbleOps(IF isVert THEN VBubbleAt(p, Head(lines)) ELSE HBubbleAt(p, Head(lines)),
                 Head(lines).label)
       \o BubblesOver(p, Tail(lines), isVert)

BubbleLayer(p) == BubblesOver(p, VLines(p), TRUE) \o BubblesOver(p, HLines(p), FALSE)

\* drawDim (282-290): the dimension line, a tick at each end, the text at
\* the middle; axis names the grid lines it spans.
drawDim(p, axis, x1, y1, x2, y2, txt) ==
  LET tick == MmToPx(p, Num(150))
  IN << [layer |-> "dimension", op |-> "stroke", axis |-> axis, pts |-> <<Pt(x1, y1), Pt(x2, y2)>>],
        [layer |-> "dimension", op |-> "tick", axis |-> axis,
         pts |-> <<Pt(RSub(x1, tick), RAdd(y1, tick)), Pt(RAdd(x1, tick), RSub(y1, tick))>>],
        [layer |-> "dimension", op |-> "tick", axis |-> axis,
         pts |-> <<Pt(RSub(x2, tick), RAdd(y2, tick)), Pt(RAdd(x2, tick), RSub(y2, tick))>>],
        [layer |-> "dimension", op |-> "fillText", axis |-> axis, text |-> txt,
         pts |-> <<Pt(Half(RAdd(x1, x2)), Half(RAdd(y1, y2)))>>] >>

\* The one drawDim call of handleGenerate (292-293): the overall dimension
\* over the vertical grid lines, labelled gridW.toString().
DimensionLayer(p) ==
  LET t1Y == RSub(RSub(RSub(CY(p), Ext(p)), BubbleDia), RMul(Num(30), PPI))
      v == VLines(p)
  IN drawDim(p, "vertical", MapX(p, v[1].position), t1Y,
             MapX(p, v[Len(v)].position), t1Y, NumberToString(GridW(p)))

\* The title block (295-304): its box and four lines of text.
TitleLayer(p) ==
  LET tbW == RMul(Num(100), PPI)
      tbH == RMul(Num(45), PPI)
      tX == RSub(RSub(CANVAS_W, RMul(Num(10), PPI)), tbW)
      tY == RSub(RSub(CANVAS_H, RMul(Num(10), PPI)), tbH)
      at(dy) == <<Pt(RAdd(tX, RMul(Num(4), PPI)), RAdd(tY, RMul(Num(dy), PPI)))>>
  IN << [layer |-> "title", op |-> "fillRect", pts |-> <<Pt(tX, tY)>>, size |-> <<tbW, tbH>>],
        [layer |-> "title", op |-> "strokeRect", pts |-> <<Pt(tX, tY)>>, size |-> <<tbW, tbH>>],
        [layer |-> "title", op |-> "fillText", pts |-> at(8), text |-> "FOUNDATION LAYOUT PLAN"],
        [layer |-> "title", op |-> "fillText", pts |-> at(18), text |-> "PROJECT: SITE_AUTOGEN_S101"],
        [layer |-> "title", op |-> "fillText", pts |-> at(24), text |-> "SCALE", scale |-> p.settings.scale],
        [layer |-> "title", op |-> "fillText", pts |-> at(30), text |-> "DATE"] >>

\* Everything handleGenerate paints after the guard of line 165, in order.
Paint(p) ==
  << [layer |-> "background", op |-> "fillRect", pts |-> <<Pt(Num(0), Num(0))>>,
      size |-> <<CANVAS_W, CANVAS_H>>] >>
  \o TrenchLayer(p, Connections(p))
  \o FootingLayer(p, Connections(p))
  \o WallLayer(p, Connections(p))
  \o ColumnLayer(p, p.columns)
  \o GridLineLayer(p)
  \o BubbleLayer(p)
  \o DimensionLayer(p)
  \o TitleLayer(p)

(***************************************************************************)
(* Label allocation and hit testing (src/components/CanvasEditor.tsx)      *)
(***************************************************************************)
\* Math.max(...nums) of a non-empty sequence of integers.
RECURSIVE MaxOf(_)
MaxOf(nums) ==
  IF Len(nums) = 1 THEN nums[1] ELSE Max(nums[1], MaxOf(Tail(nums)))

\* lines.map(l => parseInt(l.label)).filter(n => !isNaN(n)), as integers.
RECURSIVE ParsedLabels(_)
ParsedLabels(lines) ==
  IF lines = <<>> THEN <<>>
  ELSE (IF IsNaN(ParseInt(Head(lines).label)) THEN <<>> ELSE <<ParseInt(Head(lines).label).n>>)
       \o ParsedLabels(Tail(lines))

\* getNextLabel that counts the vertical lines instead of reading the last
\* label.
getNextLabelByCount(gl, orientation) ==
  LET lines == OfOrientation(gl, orientation)
  IN IF orientation = "vertical"
     THEN <<ChUpperA + Len(lines)>>
     ELSE IF Len(lines) = 0 THEN <<49>>
          ELSE LET nums == ParsedLabels(lines)
               IN IF Len(nums) > 0 THEN IntToString(MaxOf(nums) + 1)
                  ELSE IntToString(Len(lines) + 1)

\* getNextLabel that adds 1 to the last numeric label instead of the
\* largest.
getNextLabelAfterLast(gl, orientation) ==
  LET lines == OfOrientation(gl, orientation)
  IN IF orientation = "vertical"
     THEN IF Len(lines) = 0 THEN <<ChUpperA>>
          ELSE LET last == lines[Len(lines)].label
               IN IF last = <<>> THEN <<ChUpperA>>
                  ELSE IF last[1] >= ChUpperA /\ last[1] <= ChUpperZ THEN <<last[1] + 1>>
                  ELSE IF last[1] >= ChLowerA /\ last[1] <= ChLowerZ THEN <<last[1] + 1>>
                  ELSE <<ChUpperA>>
     ELSE IF Len(lines) = 0 THEN <<49>>
          ELSE LET nums == ParsedLabels(lines)
               IN IF Len(nums) > 0 THEN IntToString(nums[Len(nums)] + 1)
                  ELSE IntToString(Len(lines) + 1)

\* getNextLabel(orientation) over project.gridLines = gl.  charCodeAt(0)
\* of an empty label is NaN, which is in neither range.
getNextLabel(gl, orientation) ==
  LET lines == OfOrientation(gl, orientation)
  IN IF orientation = "vertical"
     THEN IF Len(lines) = 0 THEN <<ChUpperA>>
          ELSE LET last == lines[Len(lines)].label
               IN IF last = <<>> THEN <<ChUpperA>>
                  ELSE IF last[1] >= ChUpperA /\ last[1] <= ChUpperZ THEN <<last[1] + 1>>
                  ELSE IF last[1] >= ChLowerA /\ last[1] <= ChLowerZ THEN <<last[1] + 1>>
                  ELSE <<ChUpperA>>
     ELSE IF Len(lines) = 0 THEN <<49>>
          ELSE LET nums == ParsedLabels(lines)
               IN IF Len(nums) > 0 THEN IntToString(MaxOf(nums) + 1)
                  ELSE IntToString(Len(lines) + 1)

\* getIntersections: every vertical line against every horizontal line, in
\* insertion order, verticals outermost.
RECURSIVE CrossOne(_, _)
CrossOne(v, hs) ==
  IF hs = <<>> THEN <<>>
  ELSE <<[id |-> IntersectionId(v.label, Head(hs).label), x |-> v.position,
          y |-> Head(hs).position]>> \o CrossOne(v, Tail(hs))

RECURSIVE CrossAll(_, _)
CrossAll(vs, hs) ==
  IF vs = <<>> THEN <<>> ELSE CrossOne(Head(vs), hs) \o CrossAll(Tail(vs), hs)

getIntersections(gl) ==
  CrossAll(OfOrientation(gl, "vertical"), OfOrientation(gl, "horizontal"))

\* Math.hypot(i.x - x, i.y - y) < Math.max(15, imageWidth / 100) for finite
\* coordinates, compared as squares.
Hit(i, x, y, imageWidth) ==
  LET dx == RSub(i.x, x)
      dy == RSub(i.y, y)
      r == RMax(Num(15), RDiv(Num(imageWidth), Num(100)))
  IN RLess(RAdd(RMul(dx, dx), RMul(dy, dy)), RMul(r, r))

\* intersections.find(hit): <<>> or <<the first intersection hit>>.
Clicked(gl, x, y, imageWidth) ==
  LET hits == SelectSeq(getIntersections(gl), LAMBDA i : Hit(i, x, y, imageWidth))
  IN IF hits = <<>> THEN <<>> ELSE <<hits[1]>>

\* An updater that appends the column whether or not the id is selected.
ToggleColumnAlwaysAdds(cols, id) == Append(cols, NewColumn(id))

\* The updater of handleCanvasClick (241-254): remove the column with the
\* id when there is one, else append a new one.
ToggleColumn(cols, id) ==
  IF \E k \in 1..Len(cols) : cols[k].intersectionId = id
  THEN SelectSeq(cols, LAMBDA c : c.intersectionId # id)
  ELSE Append(cols, NewColumn(id))

(***************************************************************************)
(* Bounds and inputs of the model                                          *)
(***************************************************************************)
\* Most grid lines placed by hand (placed plus scheduled).
MaxLines == 3
\* Most setTimeout callbacks of addGridLineAt pending at once.
MaxTimers == 1
\* Most handleGenerate invocations awaiting toBlob at once.
MaxRenders == 1
\* Most manual changes the history variable manual remembers.
MaxTracked == 1
\* Most user input events (clicks, keys, form edits) in one behaviour.
MaxEvents == 7
\* Most chosen files whose image is still being read and decoded.
MaxUploads == 2

\* Pixel sizes of the uploaded image.
ImageSizes == {<<1000, 1000>>, <<1500, 800>>}
\* e.target.files?.[0] of a change event: <<>> (no file) or <<the size of
\* the image in the file>>.
FileChoices == {<<>>} \cup { <<sz>> : sz \in ImageSizes }
\* Canvas coordinates of clicks and of the hover position.
ClickXs == {Num(100), Num(500)}
ClickYs == {Num(100)}
\* What prompt returns: null (cancelled) or the text typed ("" and " Z").
PromptAnswers ==
  { [null |-> TRUE, text |-> <<>>],
    [null |-> FALSE, text |-> <<>>],
    [null |-> FALSE, text |-> <<32, 90>>] }
\* Grid-line lists the AI collaborator may return; position is the
\* normalized position, 0.5 and 0.1 here.
DetectLists ==
  { << [label |-> <<67>>, orientation |-> "vertical", position |-> Rat(1, 2)],
       [label |-> <<49>>, orientation |-> "horizontal", position |-> Rat(1, 10)] >> }
\* How an AI call ends: it throws before result.gridLines is read (network
\* error, no text, unparsable JSON), the parsed result has no gridLines,
\* gridLines is no array (map throws), or gridLines is a list.
DetectOutcomes ==
  { [kind |-> "throws", lines |-> <<>>],
    [kind |-> "noGridLines", lines |-> <<>>],
    [kind |-> "notAList", lines |-> <<>>] }
  \cup { [kind |-> "list", lines |-> l] : l \in DetectLists }
\* The settings fields edited (the form has one input per field, all wired to
\* updateSetting alike) and the values typed: "50", "", "0" and "-0".
SettingKeys == {"scale"}
SettingInputs == { <<53, 48>>, <<>>, <<48>>, <<ChDash, 48>> }

(***************************************************************************)
(* State                                                                   *)
(***************************************************************************)
VARIABLES
  step,               \* AppStep
  currentTool,        \* "none" (null), "v-line", "h-line"
  image,              \* [loaded, width, height]: imageSrc # null, imageWidth, imageHeight
  gridLines,          \* project.gridLines
  columns,            \* project.columns
  settings,           \* project.settings
  generatedImageSrc,  \* <<>> (null) or <<the project an image was painted from>>
  past,               \* undo stack of [gridLines, columns]
  future,             \* redo stack
  isAnalyzing,
  uploads,            \* sizes of the images still being read and decoded, oldest first
  detect,             \* the handleAutoDetect invocation awaiting the AI call: <<>> or <<closure>>
  timers,             \* pending setTimeout callbacks of addGridLineAt, oldest first
  renders,            \* handleGenerate invocations awaiting toBlob, oldest first
  attempt,            \* how the latest handleGenerate invocation went: "none", "aborted", "painted"
  manual,             \* history variable: the snapshots that held before the manual
                      \* changes not yet undone, oldest first (the last MaxTracked)
  events              \* number of user input events handled so far

vars == <<step, currentTool, image, gridLines, columns, settings, generatedImageSrc,
          past, future, isAnalyzing, uploads, detect, timers, renders, attempt, manual,
          events>>

project == [gridLines |-> gridLines, columns |-> columns, settings |-> settings]
Snapshot == [gridLines |-> gridLines, columns |-> columns]

\* The paint calls of a stored image.
ImageOf(src) == Paint(src)

Init ==
  /\ step = "UPLOAD"
  /\ currentTool = "none"
  /\ image = [loaded |-> FALSE, width |-> 0, height |-> 0]
  /\ gridLines = <<>>
  /\ columns = <<>>
  /\ settings = InitialSettings
  /\ generatedImageSrc = <<>>
  /\ past = <<>>
  /\ future = <<>>
  /\ isAnalyzing = FALSE
  /\ uploads = <<>>
  /\ detect = <<>>
  /\ timers = <<>>
  /\ renders = <<>>
  /\ attempt = "none"
  /\ manual = <<>>
  /\ events = 0

\* The last k elements of a sequence: array.slice(-k).
LastK(seq, k) == IF Len(seq) <= k THEN seq ELSE SubSeq(seq, Len(seq) - k + 1, Len(seq))

\* manual after one more manual change made in the current state.
Tracked == LastK(Append(manual, Snapshot), MaxTracked)

\* One more user input event, while the bound allows it.
UserEvent == events < MaxEvents /\ events' = events + 1

(***************************************************************************)
(* Sidebar (src/unnamed/part_001 1-155)                                    *)
(***************************************************************************)
\* handleFileUpload up to reader.readAsDataURL (26-45): the file input
\* exists only in the UPLOAD step; with no file chosen nothing is started,
\* else the file is read and its image decoded in the background.
HandleFileUpload ==
  /\ UserEvent
  /\ step = "UPLOAD"
  /\ \E file \in FileChoices :
       IF file = <<>> THEN UNCHANGED uploads
       ELSE Len(uploads) < MaxUploads /\ uploads' = Append(uploads, file[1])
  /\ UNCHANGED <<step, currentTool, image, gridLines, columns, settings,
                 generatedImageSrc, past, future, isAnalyzing, detect, timers, renders,
                 attempt, manual>>

\* seq without its k-th element.
RemoveAt(seq, k) == SubSeq(seq, 1, k - 1) \o SubSeq(seq, k + 1, Len(seq))

\* The end of one background read: img.onload (33-39) stores the image and
\* its size and sets the step to GRID_MAPPING, whatever the step is by
\* then; a file that does not decode fires no onload and changes nothing.
\* The reads end in any order.
ImgOnload ==
  /\ UNCHANGED events
  /\ \E k \in 1..Len(uploads), decoded \in BOOLEAN :
       /\ uploads' = RemoveAt(uploads, k)
       /\ IF decoded
          THEN /\ image' = [loaded |-> TRUE, width |-> uploads[k][1],
                                              height |-> uploads[k][2]]
               /\ step' = "GRID_MAPPING"
          ELSE UNCHANGED <<image, step>>
  /\ UNCHANGED <<currentTool, gridLines, columns, settings, generatedImageSrc, past,
                 future, isAnalyzing, detect, timers, renders, attempt, manual>>

\* The V-Line and H-Line buttons.
SetCurrentTool ==
  /\ UserEvent
  /\ step = "GRID_MAPPING"
  /\ \E t \in {"v-line", "h-line"} : currentTool' = t
  /\ UNCHANGED <<step, image, gridLines, columns, settings, generatedImageSrc, past,
                 future, isAnalyzing, detect, timers, renders, attempt, manual,
                 uploads>>

\* "Next: Place Columns".
NextPlaceColumns ==
  /\ UserEvent
  /\ step = "GRID_MAPPING"
  /\ step' = "COLUMN_SELECTION"
  /\ UNCHANGED <<currentTool, image, gridLines, columns, settings, generatedImageSrc,
                 past, future, isAnalyzing, detect, timers, renders, attempt, manual,
                 uploads>>

\* updateSetting(key, value): the number is stored unless parseInt gives NaN.
UpdatedSettings(key, value) ==
  IF IsNaN(ParseInt(value)) THEN settings
  ELSE [settings EXCEPT ![key] = ParseInt(value)]

UpdateSetting ==
  /\ UserEvent
  /\ step = "COLUMN_SELECTION"
  /\ \E key \in SettingKeys, value \in SettingInputs :
        settings' = UpdatedSettings(key, value)
  /\ UNCHANGED <<step, currentTool, image, gridLines, columns, generatedImageSrc, past,
                 future, isAnalyzing, detect, timers, renders, attempt, manual,
                 uploads>>

(***************************************************************************)
(* History (src/App.tsx 38-81)                                             *)
(***************************************************************************)
\* saveHistory without the slice: the snapshot is appended to all of past.
SavedPastUntruncated(snap) == Append(past, snap)

\* setPast of saveHistory for the snapshot its closure holds.
SavedPast(snap) == Append(LastK(past, 19), snap)

\* What undo and redo read and write: the two project fields and the stacks.
History == [gridLines |-> gridLines, columns |-> columns, past |-> past, future |-> future]

\* undo that forgets to put the current snapshot on future.
undoKeepsFuture(h) ==
  IF Len(h.past) = 0 THEN h
  ELSE [gridLines |-> h.past[Len(h.past)].gridLines,
        columns |-> h.past[Len(h.past)].columns,
        past |-> SubSeq(h.past, 1, Len(h.past) - 1),
        future |-> h.future]

\* undo on the history h: nothing when past is empty, else the top of past
\* becomes current and the current snapshot is put in front of future.
undo(h) ==
  IF Len(h.past) = 0 THEN h
  ELSE [gridLines |-> h.past[Len(h.past)].gridLines,
        columns |-> h.past[Len(h.past)].columns,
        past |-> SubSeq(h.past, 1, Len(h.past) - 1),
        future |-> <<[gridLines |-> h.gridLines, columns |-> h.columns]>> \o h.future]

\* redo on the history h: nothing when future is empty, else the head of
\* future becomes current and the current snapshot is appended to past.
redo(h) ==
  IF Len(h.future) = 0 THEN h
  ELSE [gridLines |-> h.future[1].gridLines,
        columns |-> h.future[1].columns,
        past |-> Append(h.past, [gridLines |-> h.gridLines, columns |-> h.columns]),
        future |-> Tail(h.future)]

\* undo: the Undo button of the grid step, or Ctrl/Cmd+Z in any step.
Undo ==
  /\ UserEvent
  /\ gridLines' = undo(History).gridLines
  /\ columns' = undo(History).columns
  /\ past' = undo(History).past
  /\ future' = undo(History).future
  /\ manual' = SubSeq(manual, 1, Len(manual) - 1)
  /\ UNCHANGED <<step, currentTool, image, settings, generatedImageSrc, isAnalyzing,
                 detect, timers, renders, attempt,
                 uploads>>

\* redo: the Redo button, Ctrl/Cmd+Shift+Z or Ctrl/Cmd+Y.
Redo ==
  /\ UserEvent
  /\ gridLines' = redo(History).gridLines
  /\ columns' = redo(History).columns
  /\ past' = redo(History).past
  /\ future' = redo(History).future
  /\ manual' = IF Len(future) = 0 THEN manual ELSE <<>>
  /\ UNCHANGED <<step, currentTool, image, settings, generatedImageSrc, isAnalyzing,
                 detect, timers, renders, attempt,
                 uploads>>

(***************************************************************************)
(* handleAutoDetect (src/App.tsx 83-130)                                   *)
(***************************************************************************)
\* A button that is not disabled while a detection is in flight.
AutoDetectStartWhileAnalyzing ==
  /\ UserEvent
  /\ step = "GRID_MAPPING"
  /\ IF ~image.loaded
     THEN UNCHANGED <<isAnalyzing, detect>>
     ELSE /\ isAnalyzing' = TRUE
          /\ detect' = <<[gridLines |-> gridLines, columns |-> columns,
                          imageWidth |-> image.width, imageHeight |-> image.height]>>
  /\ UNCHANGED <<step, currentTool, image, gridLines, columns, settings,
                 generatedImageSrc, past, future, timers, renders, attempt, manual,
                 uploads>>

\* The click on "AI Auto-Detect Grids" up to the await: the button is
\* disabled while isAnalyzing.  The invocation keeps the project and the
\* saveHistory of the render it was started from.
AutoDetectStart ==
  /\ UserEvent
  /\ step = "GRID_MAPPING"
  /\ ~isAnalyzing
  /\ IF ~image.loaded
     THEN UNCHANGED <<isAnalyzing, detect>>
     ELSE /\ isAnalyzing' = TRUE
          /\ detect' = <<[gridLines |-> gridLines, columns |-> columns,
                          imageWidth |-> image.width, imageHeight |-> image.height]>>
  /\ UNCHANGED <<step, currentTool, image, gridLines, columns, settings,
                 generatedImageSrc, past, future, timers, renders, attempt, manual,
                 uploads>>

\* newLines of lines 121-126 for a returned list, with the image size of
\* the closure c: the normalized position times the width or the height.
NewLines(c, lines) ==
  [i \in 1..Len(lines) |->
     GridLine(lines[i].label,
              IF lines[i].orientation = "vertical"
              THEN RMul(lines[i].position, Num(c.imageWidth))
              ELSE RMul(lines[i].position, Num(c.imageHeight)),
              lines[i].orientation)]

\* The rest of handleAutoDetect once the AI call has settled with outcome o:
\* saveHistory runs at line 120 as soon as result.gridLines is truthy,
\* before map is applied to it.
AutoDetectSettleWith(o) ==
  /\ UNCHANGED events
  /\ detect # <<>>
  /\ LET c == detect[1]
         saved == o.kind \in {"notAList", "list"}
     IN /\ past' = IF saved
                   THEN SavedPast([gridLines |-> c.gridLines, columns |-> c.columns])
                   ELSE past
        /\ future' = IF saved THEN <<>> ELSE future
        /\ gridLines' = IF o.kind = "list" THEN NewLines(c, o.lines) ELSE gridLines
        /\ manual' = IF o.kind = "list" THEN <<>> ELSE manual
  /\ isAnalyzing' = FALSE
  /\ detect' = <<>>
  /\ UNCHANGED <<step, currentTool, image, columns, settings, generatedImageSrc,
                 timers, renders, attempt,
                 uploads>>

AutoDetectSettle == \E o \in DetectOutcomes : AutoDetectSettleWith(o)

(***************************************************************************)
(* CanvasEditor (src/components/CanvasEditor.tsx 59-106, 225-257)          *)
(***************************************************************************)
\* addGridLineAt(x, y) up to setTimeout: the callback keeps the tool, the
\* point and the project of the render it was created in.
AddGridLineAt(x, y) ==
  IF step # "GRID_MAPPING" \/ currentTool = "none"
  THEN UNCHANGED timers
  ELSE /\ Len(timers) < MaxTimers
       /\ Len(gridLines) + Len(timers) < MaxLines
       /\ timers' = Append(timers, [tool |-> currentTool, x |-> x, y |-> y,
                                     gridLines |-> gridLines])

\* A click on the canvas, which exists once an image is loaded and while
\* the step is not GENERATION.
HandleCanvasClick ==
  /\ UserEvent
  /\ image.loaded
  /\ step \in {"GRID_MAPPING", "COLUMN_SELECTION"}
  /\ \E x \in ClickXs, y \in ClickYs :
       IF step = "GRID_MAPPING"
       THEN AddGridLineAt(x, y) /\ UNCHANGED <<columns, manual>>
       ELSE LET clicked == Clicked(gridLines, x, y, image.width)
            IN /\ columns' = IF clicked = <<>> THEN columns
                             ELSE ToggleColumn(columns, clicked[1].id)
               /\ manual' = IF clicked = <<>> THEN manual ELSE Tracked
               /\ UNCHANGED timers
  /\ UNCHANGED <<step, currentTool, image, gridLines, settings, generatedImageSrc,
                 past, future, isAnalyzing, detect, renders, attempt,
                 uploads>>

\* Enter pressed over the canvas with the pointer at (x, y).
HandleKeyDown ==
  /\ UserEvent
  /\ step \in {"UPLOAD", "GRID_MAPPING", "COLUMN_SELECTION"}
  /\ image.loaded
  /\ \E x \in ClickXs, y \in ClickYs : AddGridLineAt(x, y)
  /\ UNCHANGED <<step, currentTool, image, gridLines, columns, settings,
                 generatedImageSrc, past, future, isAnalyzing, detect, renders,
                 attempt, manual,
                 uploads>>

\* The setTimeout callback of addGridLineAt: the default label comes from
\* the project of its closure, the new line is appended to the current list.
TimerFires ==
  /\ UNCHANGED events
  /\ timers # <<>>
  /\ \E answer \in PromptAnswers :
       LET t == timers[1]
           o == IF t.tool = "v-line" THEN "vertical" ELSE "horizontal"
           defaultLabel == getNextLabel(t.gridLines, o)
           finalLabel == IF Trim(answer.text) = <<>> THEN defaultLabel ELSE Trim(answer.text)
           newLine == GridLine(finalLabel, IF t.tool = "v-line" THEN t.x ELSE t.y, o)
       IN IF answer.null
          THEN UNCHANGED <<gridLines, manual>>
          ELSE gridLines' = Append(gridLines, newLine) /\ manual' = Tracked
  /\ timers' = Tail(timers)
  /\ UNCHANGED <<step, currentTool, image, columns, settings, generatedImageSrc, past,
                 future, isAnalyzing, detect, renders, attempt,
                 uploads>>

(***************************************************************************)
(* handleGenerate and the GENERATION view (src/App.tsx 132-165, 306-307,   *)
(* 320-362)                                                                *)
(***************************************************************************)
\* handleGenerate with a slip on its early return: the attempt that aborts
\* also drops the stored image.
HandleGenerateAbortResets(ctx) ==
  /\ UserEvent
  /\ step = "COLUMN_SELECTION"
  /\ step' = "GENERATION"
  /\ IF ~ctx \/ ~HasBothAxes(project)
     THEN attempt' = "aborted" /\ generatedImageSrc' = <<>> /\ UNCHANGED renders
     ELSE /\ Len(renders) < MaxRenders
          /\ attempt' = "painted"
          /\ renders' = Append(renders, project)
          /\ UNCHANGED generatedImageSrc
  /\ UNCHANGED <<currentTool, image, gridLines, columns, settings,
                 past, future, isAnalyzing, uploads, detect, timers, manual>>

\* "Generate Pro Plan", up to the await of toBlob, when canvas.getContext
\* gives a context (ctx) or null (~ctx): the step is set first (133), then
\* the invocation returns at line 146 without a context, returns at line
\* 165 without both axes, or paints and waits.
HandleGenerateWith(ctx) ==
  /\ UserEvent
  /\ step = "COLUMN_SELECTION"
  /\ step' = "GENERATION"
  /\ IF ~ctx \/ ~HasBothAxes(project)
     THEN attempt' = "aborted" /\ UNCHANGED renders
     ELSE /\ Len(renders) < MaxRenders
          /\ attempt' = "painted"
          /\ renders' = Append(renders, project)
  /\ UNCHANGED <<currentTool, image, gridLines, columns, settings, generatedImageSrc,
                 past, future, isAnalyzing, uploads, detect, timers, manual>>

HandleGenerate == \E ctx \in BOOLEAN : HandleGenerateWith(ctx)

\* A toBlob callback that paints from the project as it is when the blob
\* arrives instead of the project its invocation read.
BlobReadyFromCurrent ==
  /\ UNCHANGED events
  /\ renders # <<>>
  /\ \E blob \in BOOLEAN :
       generatedImageSrc' = IF blob THEN <<project>> ELSE generatedImageSrc
  /\ renders' = Tail(renders)
  /\ UNCHANGED <<step, currentTool, image, gridLines, columns, settings, past, future,
                 isAnalyzing, detect, timers, attempt, manual,
                 uploads>>

\* The toBlob callback of the oldest waiting invocation: a blob is stored
\* as the generated image, null is dropped.
BlobReady ==
  /\ UNCHANGED events
  /\ renders # <<>>
  /\ \E blob \in BOOLEAN :
       generatedImageSrc' = IF blob THEN <<renders[1]>> ELSE generatedImageSrc
  /\ renders' = Tail(renders)
  /\ UNCHANGED <<step, currentTool, image, gridLines, columns, settings, past, future,
                 isAnalyzing, detect, timers, attempt, manual,
                 uploads>>

\* The Edit button, shown in the GENERATION step beside a generated image.
EditClick ==
  /\ UserEvent
  /\ step = "GENERATION"
  /\ generatedImageSrc # <<>>
  /\ step' = "COLUMN_SELECTION"
  /\ UNCHANGED <<currentTool, image, gridLines, columns, settings, generatedImageSrc,
                 past, future, isAnalyzing, detect, timers, renders, attempt, manual,
                 uploads>>

Next ==
  \/ HandleFileUpload
  \/ ImgOnload
  \/ SetCurrentTool
  \/ NextPlaceColumns
  \/ UpdateSetting
  \/ Undo
  \/ Redo
  \/ AutoDetectStart
  \/ AutoDetectSettle
  \/ HandleCanvasClick
  \/ HandleKeyDown
  \/ TimerFires
  \/ HandleGenerate
  \/ BlobReady
  \/ EditClick

Spec == Init /\ [][Next]_vars

(***************************************************************************)
(* A second specification for the claims about one render: the project is  *)
(* drawn from bounded sets of grid lines and columns (line lists as an AI  *)
(* result leaves them, columns selected before the lines were replaced),   *)
(* and handleGenerate is applied to it.                                    *)
(***************************************************************************)
\* Most grid lines and most columns of a drawn project.
MaxRenderLines == 5
MaxRenderCols == 4
\* Most user input events of a behaviour that starts at a drawn project.
MaxRenderEvents == 2

\* A at x=100, B at x=500, C at x=300 (evenly spaced); 1 at y=100, 2 at
\* y=500, 11 at y=100 (on top of 1).
LinePool ==
  << GridLine(<<65>>, Num(100), "vertical"), GridLine(<<66>>, Num(500), "vertical"),
     GridLine(<<67>>, Num(300), "vertical"), GridLine(<<49>>, Num(100), "horizontal"),
     GridLine(<<50>>, Num(500), "horizontal"),
     GridLine(<<49, 49>>, Num(100), "horizontal") >>

\* A-1, B-1, C-11, A-2, A-11, B-2
ColumnPool ==
  << NewColumn(IntersectionId(<<65>>, <<49>>)), NewColumn(IntersectionId(<<66>>, <<49>>)),
     NewColumn(IntersectionId(<<67>>, <<49, 49>>)), NewColumn(IntersectionId(<<65>>, <<50>>)),
     NewColumn(IntersectionId(<<65>>, <<49, 49>>)), NewColumn(IntersectionId(<<66>>, <<50>>)) >>

\* The scales of a drawn project.
RenderScales == {Num(50), Num(100)}

\* The elements of pool whose index is in S, in pool order.
RECURSIVE Pick(_, _, _)
Pick(pool, S, i) ==
  IF i > Len(pool) THEN <<>>
  ELSE (IF i \in S THEN <<pool[i]>> ELSE <<>>) \o Pick(pool, S, i + 1)

Choices(pool, max) ==
  { Pick(pool, S, 1) : S \in { T \in SUBSET (1..Len(pool)) : Cardinality(T) <= max } }

InitRender ==
  /\ step = "COLUMN_SELECTION"
  /\ currentTool = "none"
  /\ image = [loaded |-> TRUE, width |-> 1000, height |-> 1000]
  /\ gridLines \in Choices(LinePool, MaxRenderLines)
  /\ columns \in Choices(ColumnPool, MaxRenderCols)
  /\ \E sc \in RenderScales : settings = [InitialSettings EXCEPT !.scale = sc]
  /\ generatedImageSrc = <<>>
  /\ past = <<>>
  /\ future = <<>>
  /\ isAnalyzing = FALSE
  /\ uploads = <<>>
  /\ detect = <<>>
  /\ timers = <<>>
  /\ renders = <<>>
  /\ attempt = "none"
  /\ manual = <<>>
  /\ events = MaxEvents - MaxRenderEvents

NextRender ==
  \/ HandleGenerate
  \/ BlobReady
  \/ EditClick

SpecRender == InitRender /\ [][NextRender]_vars

\* The projects some handleGenerate invocation has painted: those awaiting
\* toBlob and the one behind the stored image.
Rendered ==
  { renders[i] : i \in 1..Len(renders) }
    \cup { generatedImageSrc[i] : i \in 1..Len(generatedImageSrc) }

(***************************************************************************)
(* What the specification means by a column selected on a grid line        *)
(***************************************************************************)
HasPrefix(s, pre) == Len(s) >= Len(pre) /\ SubSeq(s, 1, Len(pre)) = pre
HasSuffix(s, suf) == Len(s) >= Len(suf) /\ SubSeq(s, Len(s) - Len(suf) + 1, Len(s)) = suf

\* The label of line is one of the two labels of the id "<vLabel>-<hLabel>".
SelectedOn(c, line) ==
  \/ HasPrefix(c.intersectionId, line.label \o <<ChDash>>)
  \/ HasSuffix(c.intersectionId, <<ChDash>> \o line.label)

\* The other label of the id of a column selected on line.
OtherLabel(c, line) ==
  IF HasPrefix(c.intersectionId, line.label \o <<ChDash>>)
  THEN SubSeq(c.intersectionId, Len(line.label) + 2, Len(c.intersectionId))
  ELSE SubSeq(c.intersectionId, 1, Len(c.intersectionId) - Len(line.label) - 1)

OrthLines(p, isVert) == IF isVert THEN HLines(p) ELSE VLines(p)
AlongLines(p, isVert) == IF isVert THEN VLines(p) ELSE HLines(p)

\* The columns selected on line, in selection order.
ColumnsOn(p, line) == SelectSeq(p.columns, LAMBDA c : SelectedOn(c, line))

\* Every column selected on line names an orthogonal line that exists.
AllResolved(p, line, isVert) ==
  \A k \in 1..Len(ColumnsOn(p, line)) :
    FindByLabel(OrthLines(p, isVert), OtherLabel(ColumnsOn(p, line)[k], line)) # <<>>

\* Orthogonal positions of the columns selected on line whose orthogonal
\* line exists, ascending.
RECURSIVE ResolvedPositions(_, _, _, _)
ResolvedPositions(p, line, isVert, cs) ==
  IF cs = <<>> THEN <<>>
  ELSE LET o == FindByLabel(OrthLines(p, isVert), OtherLabel(Head(cs), line))
       IN (IF o = <<>> THEN <<>> ELSE <<[position |-> o[1].position]>>)
          \o ResolvedPositions(p, line, isVert, Tail(cs))

SelectedPositions(p, line, isVert) ==
  SortByPosition(ResolvedPositions(p, line, isVert, ColumnsOn(p, line)))

\* Every segment emitted along every line of p joins two consecutive
\* entries of the line's selected positions.
JoinsAdjacentSelected(p) ==
  \A isVert \in BOOLEAN :
    \A k \in 1..Len(AlongLines(p, isVert)) :
      LET line == AlongLines(p, isVert)[k]
          sel == SelectedPositions(p, line, isVert)
          segs == LineConnections(p, line, isVert)
      IN \A j \in 1..Len(segs) :
           \E i \in 1..(Len(sel) - 1) :
             segs[j] = SegmentOf(p, line, isVert, sel[i], sel[i + 1])

\* C1: every segment findConnections produces lies on one grid line and
\* joins two columns selected on that line that are consecutive in
\* ascending orthogonal position; none ends at an intersection that is not
\* selected on the line.
C1_SegmentsJoinAdjacentSelected == \A p \in Rendered : JoinsAdjacentSelected(p)

\* C2: an undo taken while a manual change (grid line added, column
\* toggled) is not yet undone restores the gridLines and columns that
\* held just before the most recent such change.
C2_UndoRestoresManualChange ==
  [][(Undo /\ manual # <<>>) =>
       (/\ gridLines' = manual[Len(manual)].gridLines
        /\ columns' = manual[Len(manual)].columns)]_vars

SegmentLayers == {"excavation", "blinding", "footing", "wall"}

\* C3: a zero-length segment is skipped: no paint call of a segment layer
\* is issued for it, so no normal is divided by len = 0.
C3_ZeroLengthSkipped ==
  \A p \in Rendered :
    \A k \in 1..Len(Paint(p)) :
      Paint(p)[k].layer \in SegmentLayers => ~IsZero(Paint(p)[k].len)

\* A label of the column's id is the label of no grid line of p.
Dangling(p, c) ==
  LET parts == Split(c.intersectionId, ChDash)
  IN \/ Len(parts) # 2
     \/ \E k \in 1..2 : FindByLabel(p.gridLines, parts[k]) = <<>>

WithoutDangling(p) ==
  [p EXCEPT !.columns = SelectSeq(p.columns, LAMBDA c : ~Dangling(p, c))]

\* C4: a column whose id names a grid-line label that is not present
\* contributes nothing to a render: the segments and the column
\* rectangles are those of the project without such columns.
C4_DanglingColumnsAbsent ==
  \A p \in Rendered :
    /\ Connections(p) = Connections(WithoutDangling(p))
    /\ ColumnLayer(p, p.columns) = ColumnLayer(WithoutDangling(p), WithoutDangling(p).columns)

IsLetter(ch) == (ch >= ChUpperA /\ ch <= ChUpperZ) \/ (ch >= ChLowerA /\ ch <= ChLowerZ)

\* The default label is one letter, and it is "A" when the last vertical
\* label starts with 'Z', 'z' or no letter.
NextVerticalLabelOk(gl) ==
  LET v == OfOrientation(gl, "vertical")
      r == getNextLabel(gl, "vertical")
      last == v[Len(v)].label
  IN /\ Len(r) = 1 /\ IsLetter(r[1])
     /\ (v # <<>> /\ (last = <<>> \/ last[1] \in {ChUpperZ, ChLowerZ} \/ ~IsLetter(last[1])))
          => r = <<ChUpperA>>

\* C5: for a vertical line being placed, getNextLabel returns "A" when the
\* last vertical label starts with 'Z', 'z' or a non-letter, and never
\* returns a non-letter.
C5_VerticalLabelWrapsToA ==
  \A k \in 1..Len(timers) :
    timers[k].tool = "v-line" => NextVerticalLabelOk(timers[k].gridLines)

\* C6: no segment is emitted along a grid line with fewer than 2 selected
\* columns, whatever is selected on other lines.
C6_NoSegmentBelowTwoSelected ==
  \A p \in Rendered :
    \A isVert \in BOOLEAN :
      \A k \in 1..Len(AlongLines(p, isVert)) :
        Len(ColumnsOn(p, AlongLines(p, isVert)[k])) < 2
          => LineConnections(p, AlongLines(p, isVert)[k], isVert) = <<>>

\* C7: along a line with k >= 2 selected columns whose orthogonal lines
\* all exist, exactly k-1 segments are emitted, the i-th joining the i-th
\* and (i+1)-th selected column in ascending orthogonal position.
C7_ExactlyKMinusOneSegments ==
  \A p \in Rendered :
    \A isVert \in BOOLEAN :
      \A k \in 1..Len(AlongLines(p, isVert)) :
        LET line == AlongLines(p, isVert)[k]
            sel == SelectedPositions(p, line, isVert)
        IN (Len(ColumnsOn(p, line)) >= 2 /\ AllResolved(p, line, isVert))
             => LineConnections(p, line, isVert)
                  = [i \in 1..(Len(sel) - 1) |-> SegmentOf(p, line, isVert, sel[i], sel[i + 1])]

\* C8: a handleGenerate invocation made with no vertical or no horizontal
\* grid line queues no image and leaves gridLines, columns, settings,
\* past, future and generatedImageSrc as they were.
C8_AbortLeavesProjectUnchanged ==
  [][(step = "COLUMN_SELECTION" /\ step' = "GENERATION" /\ ~HasBothAxes(project)) =>
       (/\ attempt' = "aborted"
        /\ renders' = renders
        /\ UNCHANGED <<gridLines, columns, settings, past, future, generatedImageSrc>>)]_vars

\* An attempt was aborted while an image of an earlier render was stored.
C8_Witness == attempt = "aborted" /\ step = "GENERATION" /\ generatedImageSrc # <<>>

\* The GENERATION view shows the generated image (src/App.tsx 320-337).
ImageDisplayed == step = "GENERATION" /\ generatedImageSrc # <<>>

\* C9: after an aborted attempt the GENERATION view shows no generated
\* image.
C9_AbortShowsNoImage ==
  (attempt = "aborted" /\ step = "GENERATION") => ~ImageDisplayed

\* The Edit button, the one control of the GENERATION step that sets
\* another step, is offered (src/App.tsx 322-332; the Sidebar offers none).
CanLeaveGeneration == generatedImageSrc # <<>>

\* C10: after an aborted attempt, once no earlier render is still being
\* encoded and no image is still being decoded, the user can leave the
\* GENERATION step for an editing step.
C10_CanEditAfterAbort ==
  (attempt = "aborted" /\ step = "GENERATION" /\ renders = <<>> /\ uploads = <<>>)
    => CanLeaveGeneration

\* C11: a handleAutoDetect invocation whose AI call fails or returns a
\* malformed response (throws, gridLines missing, gridLines no list) leaves
\* gridLines, columns, past and future as they were.
C11_FailedDetectLeavesHistory ==
  [][\A o \in DetectOutcomes :
       (o.kind # "list" /\ AutoDetectSettleWith(o))
         => UNCHANGED <<gridLines, columns, past, future>>]_vars

\* C12: every settings field is a positive integer in every reachable
\* state.
C12_SettingsPositive ==
  \A k \in DOMAIN settings : settings[k].d = 1 /\ settings[k].n > 0

(***************************************************************************)
(* A third specification for the claims about deep history stacks: the    *)
(* session starts in the grid step after HistoryDepths detections, each    *)
(* of which returned the same list, and up to MaxUndone undos.             *)
(***************************************************************************)
\* Most undos taken before the first state of the history specification.
MaxUndone == 2
\* Numbers of detections made before the first state.
HistoryDepths == {19, 20}

\* The grid lines every one of those detections produced.
DetectedLines ==
  NewLines([imageWidth |-> 1000, imageHeight |-> 1000], CHOOSE l \in DetectLists : TRUE)

\* The snapshots the session went through: the empty grid, then the
\* detected lines after each detection.
Chain(t) ==
  [i \in 1..(t + 1) |->
     [gridLines |-> IF i = 1 THEN <<>> ELSE DetectedLines, columns |-> <<>>]]

InitHistory ==
  /\ step = "GRID_MAPPING"
  /\ currentTool = "none"
  /\ image = [loaded |-> TRUE, width |-> 1000, height |-> 1000]
  /\ \E t \in HistoryDepths, u \in 0..MaxUndone :
       /\ past = SubSeq(Chain(t), 1, t - u)
       /\ gridLines = Chain(t)[t - u + 1].gridLines
       /\ columns = Chain(t)[t - u + 1].columns
       /\ future = SubSeq(Chain(t), t - u + 2, t + 1)
  /\ settings = InitialSettings
  /\ generatedImageSrc = <<>>
  /\ isAnalyzing = FALSE
  /\ uploads = <<>>
  /\ detect = <<>>
  /\ timers = <<>>
  /\ renders = <<>>
  /\ attempt = "none"
  /\ manual = <<>>
  /\ events = 0

NextHistory ==
  \/ Undo
  \/ Redo
  \/ AutoDetectStart
  \/ AutoDetectSettle
  \/ NextPlaceColumns
  \/ HandleCanvasClick

SpecHistory == InitHistory /\ [][NextHistory]_vars

\* C13: past never holds more than 20 snapshots, whatever sequence of
\* saveHistory, undo and redo is applied.
C13_PastAtMostTwenty == Len(past) <= 20

\* saveHistory has run on a full stack: past holds 20 snapshots and the
\* oldest one, the empty grid, has been dropped.
C13_Witness == Len(past) = 20 /\ past[1].gridLines # <<>>

\* C14: undo then redo gives back gridLines, columns, past and future when
\* past is not empty, and redo then undo does when future is not empty.
C14_UndoRedoIdentity ==
  /\ past # <<>> => redo(undo(History)) = History
  /\ future # <<>> => undo(redo(History)) = History

\* Both directions apply, in a state reached by an undo taken after a
\* column was toggled.
C14_Witness == past # <<>> /\ future # <<>> /\ future[1].columns # <<>>

(***************************************************************************)
(* A fourth specification for the claims about getNextLabel: the grid      *)
(* step starts with a list of lines whose labels were typed at the prompt, *)
(* and lines are placed on it.                                             *)
(***************************************************************************)
\* Lines placed before the first state: A, B and b vertical; 1, 3 and x
\* horizontal.
LabelPool ==
  { GridLine(<<65>>, Num(100), "vertical"), GridLine(<<66>>, Num(500), "vertical"),
    GridLine(<<98>>, Num(300), "vertical"), GridLine(<<49>>, Num(100), "horizontal"),
    GridLine(<<51>>, Num(500), "horizontal"), GridLine(<<120>>, Num(300), "horizontal") }

\* Every order of fewer than MaxLines distinct lines of the pool.
LabelLists ==
  { l \in UNION { [1..n -> LabelPool] : n \in 0..(MaxLines - 1) } :
      \A i, j \in DOMAIN l : i # j => l[i] # l[j] }

InitLabel ==
  /\ step = "GRID_MAPPING"
  /\ currentTool \in {"v-line", "h-line"}
  /\ image = [loaded |-> TRUE, width |-> 1000, height |-> 1000]
  /\ gridLines \in LabelLists
  /\ columns = <<>>
  /\ settings = InitialSettings
  /\ generatedImageSrc = <<>>
  /\ past = <<>>
  /\ future = <<>>
  /\ isAnalyzing = FALSE
  /\ uploads = <<>>
  /\ detect = <<>>
  /\ timers = <<>>
  /\ renders = <<>>
  /\ attempt = "none"
  /\ manual = <<>>
  /\ events = 0

NextLabel ==
  \/ SetCurrentTool
  \/ HandleCanvasClick
  \/ HandleKeyDown
  \/ TimerFires

SpecLabel == InitLabel /\ [][NextLabel]_vars

\* The labels of the lines of gl with orientation o, in insertion order.
LabelsOf(gl, o) ==
  [i \in 1..Len(OfOrientation(gl, o)) |-> OfOrientation(gl, o)[i].label]

\* ch is a letter whose successor is a letter too.
HasSuccessorLetter(ch) ==
  (ch >= ChUpperA /\ ch < ChUpperZ) \/ (ch >= ChLowerA /\ ch < ChLowerZ)

\* C15: for a vertical line being placed, getNextLabel returns "A" when
\* there is no vertical line, and the successor of the first character of
\* the last vertical label when that character has a successor letter.
C15_VerticalDefaultLabel ==
  \A k \in 1..Len(timers) :
    timers[k].tool = "v-line" =>
      LET ls == LabelsOf(timers[k].gridLines, "vertical")
          r == getNextLabel(timers[k].gridLines, "vertical")
      IN /\ ls = <<>> => r = <<ChUpperA>>
         /\ (ls # <<>> /\ ls[Len(ls)] # <<>> /\ HasSuccessorLetter(ls[Len(ls)][1]))
              => r = <<ls[Len(ls)][1] + 1>>

\* After A and B a third vertical line was placed with the default label.
C15_Witness == LabelsOf(gridLines, "vertical") = << <<65>>, <<66>>, <<67>> >>

\* The numbers the labels ls parse to.
NumericLabels(ls) ==
  { ParseInt(ls[i]).n : i \in { j \in 1..Len(ls) : ~IsNaN(ParseInt(ls[j])) } }

\* C16: for a horizontal line being placed, getNextLabel returns "1" when
\* there is no horizontal line, the largest numeric label plus 1 when some
\* label parses as a number, the number of horizontal lines plus 1
\* otherwise, and never the text of an existing numeric label.
C16_HorizontalDefaultLabel ==
  \A k \in 1..Len(timers) :
    timers[k].tool = "h-line" =>
      LET ls == LabelsOf(timers[k].gridLines, "horizontal")
          nums == NumericLabels(ls)
          r == getNextLabel(timers[k].gridLines, "horizontal")
      IN /\ ls = <<>> => r = <<49>>
         /\ nums # {} =>
              r = IntToString((CHOOSE m \in nums : \A n \in nums : n <= m) + 1)
         /\ (ls # <<>> /\ nums = {}) => r = IntToString(Len(ls) + 1)
         /\ \A i \in 1..Len(ls) : ~IsNaN(ParseInt(ls[i])) => r # ls[i]

\* After 1 and 3 a third horizontal line was placed with the default label.
C16_Witness == LabelsOf(gridLines, "horizontal") = << <<49>>, <<51>>, <<52>> >>

(***************************************************************************)
(* Claims about the geometry of one render                                 *)
(***************************************************************************)
\* p has exactly the lines A (x=100), B (x=500), 1 (y=100), 2 (y=500) and
\* exactly the columns A-1, A-2, B-1, B-2, with gridSpacing 4000.
IsRectangleProject(p) ==
  /\ { p.gridLines[i] : i \in 1..Len(p.gridLines) }
       = { GridLine(<<65>>, Num(100), "vertical"), GridLine(<<66>>, Num(500), "vertical"),
           GridLine(<<49>>, Num(100), "horizontal"),
           GridLine(<<50>>, Num(500), "horizontal") }
  /\ Len(p.gridLines) = 4
  /\ { p.columns[i].intersectionId : i \in 1..Len(p.columns) }
       = { <<65, 45, 49>>, <<65, 45, 50>>, <<66, 45, 49>>, <<66, 45, 50>> }
  /\ Len(p.columns) = 4
  /\ p.settings.gridSpacing = Num(4000)

\* The points a segment ends at.
EndsOf(c) == { <<c.x1, c.y1>>, <<c.x2, c.y2>> }

\* C17: for the rectangle project findConnections yields exactly 4
\* segments, along A, along B, along 1 and along 2, between the four
\* mapped corners, so that every corner ends exactly two of them.
C17_RectangleFourSegments ==
  \A p \in Rendered :
    IsRectangleProject(p) =>
      LET cs == Connections(p)
          x0 == MapX(p, Num(100))
          x1 == MapX(p, Num(500))
          y0 == MapY(p, Num(100))
          y1 == MapY(p, Num(500))
          corners == { <<x0, y0>>, <<x1, y0>>, <<x0, y1>>, <<x1, y1>> }
      IN /\ Len(cs) = 4
         /\ { EndsOf(cs[i]) : i \in 1..4 }
              = { {<<x0, y0>>, <<x0, y1>>}, {<<x1, y0>>, <<x1, y1>>},
                  {<<x0, y0>>, <<x1, y0>>}, {<<x0, y1>>, <<x1, y1>>} }
         /\ Cardinality(corners) = 4
         /\ \A q \in corners : Cardinality({ i \in 1..4 : q \in EndsOf(cs[i]) }) = 2

\* The rectangle project has been rendered.
C17_Witness == \E p \in Rendered : IsRectangleProject(p)

\* A segment with finite ends and a length that is neither 0 nor NaN.
NonDegenerate(c) ==
  /\ IsFinite(c.x1) /\ IsFinite(c.y1) /\ IsFinite(c.x2) /\ IsFinite(c.y2)
  /\ c.x1 # c.x2 \/ c.y1 # c.y2

\* The ends of segment c moved by sgn * w/2 along the unit normal
\* (-dy, dx)/len, which for a segment parallel to an axis is
\* (-sign(dy), sign(dx)).
EdgeOf(c, w, sgn) ==
  LET nx == Num(0 - Sign(RSub(c.y2, c.y1).n))
      ny == Num(Sign(RSub(c.x2, c.x1).n))
      hx == RMul(Num(sgn), RMul(nx, RDiv(w, Num(2))))
      hy == RMul(Num(sgn), RMul(ny, RDiv(w, Num(2))))
  IN << <<RAdd(c.x1, hx), RAdd(c.y1, hy)>>, <<RAdd(c.x2, hx), RAdd(c.y2, hy)>> >>

\* Some paint call of the log is of the layer, has width w and the points pts.
Painted(log, layer, w, pts) ==
  \E k \in 1..Len(log) :
    /\ log[k].layer = layer
    /\ log[k].width = w
    /\ log[k].pts = pts

\* C18: with footingWidth 1000, wallWidth 225, workingSpace 300 and a
\* positive scale, on every non-degenerate segment the wall band is
\* mmToPx(225) wide, the footing band mmToPx(1000) and the excavation band
\* mmToPx(1300), each strictly wider than the one before, with edges at
\* plus and minus half the width along the unit normal.
C18_BandWidthsOrdered ==
  \A p \in Rendered :
    (/\ p.settings.footingWidth = Num(1000) /\ p.settings.wallWidth = Num(225)
     /\ p.settings.workingSpace = Num(300) /\ RLess(Num(0), p.settings.scale)
     /\ Connections(p) # <<>>) =>
      LET w == MmToPx(p, Num(225))
          f == MmToPx(p, Num(1000))
          t == MmToPx(p, Num(1300))
          cs == Connections(p)
          log == Paint(p)
      IN /\ \A i \in 1..Len(cs) :
              NonDegenerate(cs[i]) =>
                /\ RLess(w, f) /\ RLess(f, t)
                /\ Painted(log, "wall", w,
                     EdgeOf(cs[i], w, 1) \o <<EdgeOf(cs[i], w, -1)[2], EdgeOf(cs[i], w, -1)[1]>>)
                /\ Painted(log, "footing", f,
                     EdgeOf(cs[i], f, 1) \o <<EdgeOf(cs[i], f, -1)[2], EdgeOf(cs[i], f, -1)[1]>>)
                /\ Painted(log, "excavation", t, EdgeOf(cs[i], t, 1))
                /\ Painted(log, "excavation", t, EdgeOf(cs[i], t, -1))
         /\ \A k \in 1..Len(log) :
              (log[k].layer \in {"wall", "footing", "excavation"}
                 /\ IsFinite(log[k].len) /\ ~IsZero(log[k].len))
                => log[k].width = (CASE log[k].layer = "wall" -> w
                                     [] log[k].layer = "footing" -> f
                                     [] log[k].layer = "excavation" -> t)

\* A project with scale 50 and a non-degenerate segment has been rendered.
C18_Witness ==
  \E p \in Rendered :
    /\ p.settings.scale = Num(50)
    /\ \E i \in 1..Len(Connections(p)) : NonDegenerate(Connections(p)[i])

\* The vertical lines of p lie at increasing positions a constant step
\* apart, and there are at least two of them.
EvenlySpaced(p) ==
  LET v == VLines(p)
  IN /\ Len(v) >= 2
     /\ RLess(v[1].position, v[2].position)
     /\ \A i \in 1..(Len(v) - 1) :
          RSub(v[i + 1].position, v[i].position) = RSub(v[2].position, v[1].position)

\* C19: for vertical lines evenly spaced at p0 < ... < pn, pxPerRealMM is
\* (pn - p0) / (gridSpacing * n) and mapX(pi) = cX + mmToPx(i * gridSpacing),
\* so neighbours are mmToPx(gridSpacing) apart.
C19_UniformRatio ==
  \A p \in Rendered :
    EvenlySpaced(p) =>
      LET v == VLines(p)
          n == Len(v) - 1
          gs == p.settings.gridSpacing
      IN /\ PxPerRealMM(p) = RDiv(RSub(v[n + 1].position, v[1].position), RMul(gs, Num(n)))
         /\ \A i \in 0..n :
              MapX(p, v[i + 1].position) = RAdd(CX(p), MmToPx(p, RMul(Num(i), gs)))
         /\ \A i \in 1..n :
              RSub(MapX(p, v[i + 1].position), MapX(p, v[i].position))
                = MmToPx(p, gs)

\* A project with three evenly spaced vertical lines has been rendered.
C19_Witness == \E p \in Rendered : EvenlySpaced(p) /\ Len(VLines(p)) = 3

\* seq back to front.
Reverse(seq) == [i \in 1..Len(seq) |-> seq[Len(seq) + 1 - i]]

\* seq with its first element moved to the end.
Rotate(seq) == IF seq = <<>> THEN seq ELSE Append(Tail(seq), Head(seq))

\* p with its grid lines and columns entered in other orders.
Reordered(p) ==
  { [p EXCEPT !.gridLines = Reverse(p.gridLines), !.columns = Reverse(p.columns)],
    [p EXCEPT !.gridLines = Rotate(p.gridLines), !.columns = Rotate(p.columns)] }

\* Both sequences hold the same elements the same number of times.
SameBag(s, t) ==
  /\ Len(s) = Len(t)
  /\ \A i \in 1..Len(s) :
       Cardinality({ j \in 1..Len(s) : s[j] = s[i] })
         = Cardinality({ j \in 1..Len(t) : t[j] = s[i] })

\* The mapped coordinates of every grid line of p.
MappedLines(p) ==
  { <<l.label, l.orientation,
      IF l.orientation = "vertical" THEN MapX(p, l.position) ELSE MapY(p, l.position)>> :
      l \in { p.gridLines[i] : i \in 1..Len(p.gridLines) } }

\* No two lines of one orientation share a position.
DistinctPositions(p) ==
  \A i, j \in 1..Len(p.gridLines) :
    (i # j /\ p.gridLines[i].orientation = p.gridLines[j].orientation)
      => p.gridLines[i].position # p.gridLines[j].position

\* C20 as stated: the Segment list, order included, and the mapped
\* coordinates of a render are those of the same lines and columns entered
\* in another order.
C20_SameListInAnyOrder ==
  \A p \in Rendered :
    \A q \in Reordered(p) :
      /\ Connections(q) = Connections(p)
      /\ MappedLines(q) = MappedLines(p)

\* C20, amended: the mapped coordinates do not depend on the entry order;
\* the Segment list holds the same segments in any entry order, and in
\* the same order when no two lines of one orientation share a position.
C20_SameSegmentsInAnyOrder ==
  \A p \in Rendered :
    \A q \in Reordered(p) :
      /\ MappedLines(q) = MappedLines(p)
      /\ SameBag(Connections(q), Connections(p))
      /\ DistinctPositions(p) => Connections(q) = Connections(p)

\* A rendered project with two or more segments whose reordering is
\* another list of lines.
C20_Witness ==
  \E p \in Rendered :
    /\ Len(Connections(p)) >= 2
    /\ Reverse(p.gridLines) # p.gridLines
    /\ Reverse(p.columns) # p.columns

(***************************************************************************)
(* Claims about the history discipline and about one render, continued     *)
(***************************************************************************)
\* C21: every step that changes gridLines or columns and is no undo or
\* redo (a grid line added, a column toggled, a detection result applied)
\* pushes the snapshot that held before it onto past and empties future.
C21_ChangePushesSnapshot ==
  [][((gridLines' # gridLines \/ columns' # columns) /\ ~(Undo \/ Redo)) =>
       (past' = SavedPast(Snapshot) /\ future' = <<>>)]_vars

\* Every settings field of p is a positive number.
PositiveSettings(p) == \A k \in DOMAIN p.settings : RLess(Num(0), p.settings[k])

\* C22: in every render with positive settings pxPerRealMM is a finite
\* number other than zero; with one vertical line it is 0.1, gridW is 1000
\* and the line maps to cX, and with one horizontal line gridH is 1000 and
\* the line maps to cY.
C22_RatioNonZero ==
  \A p \in Rendered :
    PositiveSettings(p) =>
      /\ IsFinite(PxPerRealMM(p)) /\ ~IsZero(PxPerRealMM(p))
      /\ Len(VLines(p)) = 1 =>
           /\ PxPerRealMM(p) = Rat(1, 10)
           /\ GridW(p) = Num(1000)
           /\ MapX(p, VLines(p)[1].position) = CX(p)
      /\ Len(HLines(p)) = 1 =>
           /\ GridH(p) = Num(1000)
           /\ MapY(p, HLines(p)[1].position) = CY(p)

\* a <= b for finite numbers.
RLeq(a, b) == ~RLess(b, a)

\* C23: in every render with two or more lines on each axis, at distinct
\* positions, the grid extent is centred on both axes: the first and the
\* last vertical line map to x values that add up to CANVAS_W, the first
\* and the last horizontal line to y values that add up to CANVAS_H, and
\* every horizontal line maps into [cY, cY + mmToPx(gridH)].
C23_ExtentCentred ==
  \A p \in Rendered :
    (/\ Len(VLines(p)) >= 2 /\ Len(HLines(p)) >= 2
     /\ DistinctPositions(p) /\ PositiveSettings(p)) =>
      LET v == VLines(p)
          h == HLines(p)
      IN /\ RAdd(MapX(p, v[1].position), MapX(p, v[Len(v)].position)) = CANVAS_W
         /\ RAdd(MapY(p, h[1].position), MapY(p, h[Len(h)].position)) = CANVAS_H
         /\ \A i \in 1..Len(h) :
              /\ RLeq(CY(p), MapY(p, h[i].position))
              /\ RLeq(MapY(p, h[i].position), RAdd(CY(p), MmToPx(p, GridH(p))))

\* The place of a layer in the z-order, bottom first.
LayerRank(layer) ==
  CASE layer = "background" -> 0
    [] layer = "excavation" -> 1
    [] layer = "blinding" -> 2
    [] layer = "footing" -> 3
    [] layer = "wall" -> 4
    [] layer = "column" -> 5
    [] layer = "gridline" -> 6
    [] layer = "bubble" -> 7
    [] layer = "dimension" -> 8
    [] layer = "title" -> 9

\* C24: the paint calls of a render are issued in layer order: no call of
\* a layer comes after a call of a layer above it.
C24_StrictLayerOrder ==
  \A p \in Rendered :
    LET log == Paint(p)
    IN \A k \in 1..(Len(log) - 1) :
         LayerRank(log[k].layer) <= LayerRank(log[k + 1].layer)

\* C25: an invocation that paints keeps the project it was invoked on;
\* no other step alters what a waiting invocation holds; and the step
\* that completes the oldest invocation stores the image of the project
\* that invocation holds, or nothing, and leaves gridLines, columns,
\* settings, past and future as they are.
C25_RenderUsesInvocationSnapshot ==
  [][/\ Len(renders') > Len(renders) => renders' = Append(renders, project)
     /\ Len(renders') >= Len(renders) => SubSeq(renders', 1, Len(renders)) = renders
     /\ Len(renders') < Len(renders) =>
          /\ renders' = Tail(renders)
          /\ generatedImageSrc' \in {generatedImageSrc, <<renders[1]>>}
          /\ UNCHANGED <<gridLines, columns, settings, past, future>>]_vars

\* A render has completed and stored the image of grid lines that an undo
\* taken meanwhile has removed from the project.
C25_Witness ==
  /\ step = "GENERATION" /\ renders = <<>> /\ generatedImageSrc # <<>>
  /\ generatedImageSrc[1].gridLines # gridLines
  /\ future # <<>> /\ future[1].gridLines = generatedImageSrc[1].gridLines

\* C26: a handleGenerate invocation aborts exactly when an axis has no
\* grid line; with a line on each axis it paints to the end, from the
\* background to the title block, and queues the image, whether or not a
\* segment is derivable.
C26_AbortsOnlyWithoutAxis ==
  [][(step = "COLUMN_SELECTION" /\ step' = "GENERATION") =>
       /\ ~HasBothAxes(project) <=> attempt' = "aborted"
       /\ HasBothAxes(project) =>
            /\ attempt' = "painted"
            /\ renders' = Append(renders, project)
            /\ LET log == Paint(project)
               IN log[1].layer = "background" /\ log[Len(log)].layer = "title"]_vars

\* The paint log holds an overall dimension of the axis: its line, a tick
\* at each end and the text txt.
HasDimension(log, axis, txt) ==
  /\ \E k \in 1..Len(log) :
       /\ log[k].layer = "dimension" /\ log[k].op = "stroke" /\ log[k].axis = axis
  /\ Cardinality({ k \in 1..Len(log) :
       log[k].layer = "dimension" /\ log[k].op = "tick" /\ log[k].axis = axis }) = 2
  /\ \E k \in 1..Len(log) :
       /\ log[k].layer = "dimension" /\ log[k].op = "fillText" /\ log[k].axis = axis
       /\ log[k].text = txt

\* C27: every render with two or more lines on each axis draws an overall
\* dimension over the vertical grid lines and one over the horizontal grid
\* lines, each with two ticks and labelled gridSpacing * (count - 1).
C27_DimensionPerAxis ==
  \A p \in Rendered :
    (Len(VLines(p)) >= 2 /\ Len(HLines(p)) >= 2) =>
      LET log == Paint(p)
      IN /\ HasDimension(log, "vertical",
              NumberToString(RMul(p.settings.gridSpacing, Num(Len(VLines(p)) - 1))))
         /\ HasDimension(log, "horizontal",
              NumberToString(RMul(p.settings.gridSpacing, Num(Len(HLines(p)) - 1))))

\* C28: the step that applies a detection result pushes onto past the
\* gridLines and columns that hold just before it, the state the result
\* replaces, so that an undo right after it gives that state back.
C28_DetectPushesReplacedState ==
  [][\A o \in DetectOutcomes :
       (o.kind = "list" /\ AutoDetectSettleWith(o)) =>
         /\ past'[Len(past')] = Snapshot
         /\ undo([gridLines |-> gridLines', columns |-> columns',
                  past |-> past', future |-> future']).gridLines = gridLines
         /\ undo([gridLines |-> gridLines', columns |-> columns',
                  past |-> past', future |-> future']).columns = columns]_vars

\* The intersection ids of a column list.
IdsOf(cols) == { cols[k].intersectionId : k \in 1..Len(cols) }

\* No two entries of the column list have the same intersectionId.
UniqueIds(cols) == Cardinality(IdsOf(cols)) = Len(cols)

\* C29: no two columns ever share an intersectionId and two clicks on one
\* intersection give back the column set; a step that changes columns is
\* an undo or redo, or a click in the COLUMN_SELECTION step that adds one
\* column with the id of an unselected intersection or removes the column
\* of a selected one.
C29_ColumnsUniqueAndToggled ==
  /\ [](/\ UniqueIds(columns)
        /\ \A k \in 1..Len(getIntersections(gridLines)) :
             LET id == getIntersections(gridLines)[k].id
             IN IdsOf(ToggleColumn(ToggleColumn(columns, id), id)) = IdsOf(columns))
  /\ [][columns' # columns =>
          \/ Undo \/ Redo
          \/ /\ step = "COLUMN_SELECTION"
             /\ UNCHANGED <<gridLines, past, future>>
             /\ \E k \in 1..Len(getIntersections(gridLines)) :
                  LET id == getIntersections(gridLines)[k].id
                  IN IF id \in IdsOf(columns)
                     THEN /\ IdsOf(columns') = IdsOf(columns) \ {id}
                          /\ Len(columns') = Len(columns) - 1
                     ELSE /\ columns' = Append(columns, NewColumn(id))]_vars

\* A second click on a selected intersection has removed its column.
C29_Witness ==
  /\ step = "COLUMN_SELECTION" /\ manual # <<>>
  /\ Len(manual[Len(manual)].columns) = Len(columns) + 1

(***************************************************************************)
(* A fifth specification for the claim about the life of a detection: the  *)
(* upload and grid steps, with the AI call settling at some time (the      *)
(* promise awaited at src/App.tsx 91 resolves or rejects).                 *)
(***************************************************************************)
\* Most user input events of a behaviour of the detection specification.
MaxDetectEvents == 5

InitDetect ==
  /\ step = "UPLOAD"
  /\ currentTool = "none"
  /\ image = [loaded |-> FALSE, width |-> 0, height |-> 0]
  /\ gridLines = <<>>
  /\ columns = <<>>
  /\ settings = InitialSettings
  /\ generatedImageSrc = <<>>
  /\ past = <<>>
  /\ future = <<>>
  /\ isAnalyzing = FALSE
  /\ uploads = <<>>
  /\ detect = <<>>
  /\ timers = <<>>
  /\ renders = <<>>
  /\ attempt = "none"
  /\ manual = <<>>
  /\ events = MaxEvents - MaxDetectEvents

NextDetect ==
  \/ HandleFileUpload
  \/ ImgOnload
  \/ SetCurrentTool
  \/ Undo
  \/ Redo
  \/ AutoDetectStart
  \/ AutoDetectSettle
  \/ HandleCanvasClick
  \/ TimerFires

SpecDetect == InitDetect /\ [][NextDetect]_vars /\ WF_vars(AutoDetectSettle)

\* C30: isAnalyzing is true exactly while one detection call is in flight;
\* a detection is started only when none is in flight; the step that
\* settles the call sets isAnalyzing to false and leaves no call in
\* flight, whatever the outcome; and isAnalyzing, once true, becomes false.
C30_DetectionSettlesOnce ==
  /\ [](isAnalyzing <=> detect # <<>>)
  /\ [][(detect' # <<>> /\ detect' # detect) => (~isAnalyzing /\ detect = <<>>)]_vars
  /\ [][(detect # <<>> /\ detect' # detect) =>
          (detect' = <<>> /\ ~isAnalyzing'
           /\ \E o \in DetectOutcomes :
                gridLines' = IF o.kind = "list" THEN NewLines(detect[1], o.lines)
                             ELSE gridLines)]_vars
  /\ (isAnalyzing ~> ~isAnalyzing)

\* A call that returned a malformed response has settled: isAnalyzing is
\* false again, and past holds the snapshot pushed before map threw.
C30_Witness ==
  /\ ~isAnalyzing /\ detect = <<>> /\ gridLines = <<>>
  /\ past # <<>> /\ past[Len(past)].gridLines = <<>>

====
